---- MODULE Spec2Model ----
(***************************************************************************)
(* Model of pyglmnet's GLM estimator (src/pyglmnet/pyglmnet.py): the       *)
(* regularization-path fit with its two solvers, the penalty and the       *)
(* proximal operator, slicing, score and predict.                          *)
(*                                                                         *)
(* Numbers.  Python floats are modelled as fixed-point numbers: a real r   *)
(* is the integer r * SCALE, and a quotient is rounded toward zero.  The   *)
(* design matrix X, the targets y and the entries of Tau are plain         *)
(* integers.  Only distr = 'gaussian' is modelled, the one distribution    *)
(* whose likelihood, gradient and Hessian are polynomial.                  *)
(*                                                                         *)
(* Vectors are 1-based sequences: the coefficient vector beta of the       *)
(* source (index 0..p) is the sequence <<beta[0], ..., beta[p]>>, so the   *)
(* source's beta[k] is beta[k + 1] here.                                   *)
(***************************************************************************)
EXTENDS Integers, Sequences, FiniteSets, TLC

\* fixed-point resolution: the real 1.0 is SCALE
SCALE == 16

\* ------------------------------------------------------------------------
\* arithmetic helpers (numpy primitives)
\* ------------------------------------------------------------------------
Abs(x) == IF x < 0 THEN -x ELSE x

Sign(x) == IF x > 0 THEN 1 ELSE IF x < 0 THEN -1 ELSE 0

\* a / b rounded toward zero, b # 0
Quot(a, b) ==
  CHOOSE q \in {IF Sign(x) * Sign(y) < 0 THEN -(Abs(x) \div Abs(y)) ELSE Abs(x) \div Abs(y) :
                  x \in {a}, y \in {b}} : TRUE

RECURSIVE SumSeq(_)
SumSeq(s) == IF s = <<>> THEN 0 ELSE Head(s) + SumSeq(Tail(s))

\* np.dot of two vectors of equal length
Dot(u, v) == SumSeq([i \in 1..Len(u) |-> u[i] * v[i]])

\* integer square root (np.linalg.norm's final sqrt, rounded down)
Isqrt(n) ==
  CHOOSE r \in UNION {{s \in 0..m : s * s <= m /\ (s + 1) * (s + 1) > m} : m \in {n}} : TRUE

\* np.linalg.norm(v, 2)
Norm2(v) == Isqrt(Dot(v, v))

\* np.linalg.norm(v, 1)
Norm1(v) == SumSeq([i \in 1..Len(v) |-> Abs(v[i])])

\* shape of a 2-D array given as a sequence of rows (at least one row)
NRows(M) == Len(M)

NCols(M) == Len(M[1])

\* column j of a 2-D array
Col(M, j) == [i \in 1..NRows(M) |-> M[i][j]]

\* np.dot(M, v)
MatVec(M, v) == [i \in 1..NRows(M) |-> Dot(M[i], v)]

\* np.dot(Tau.T, Tau)
InvCovOf(Tau) ==
  [i \in 1..NCols(Tau) |-> [j \in 1..NCols(Tau) |-> Dot(Col(Tau, i), Col(Tau, j))]]

\* np.eye(p)
Eye(p) == [i \in 1..p |-> [j \in 1..p |-> IF i = j THEN 1 ELSE 0]]

\* beta[1:]
Rest(beta) == Tail(beta)

\* the optional arguments Tau and group: None is [given |-> FALSE]
NoTau == [given |-> FALSE, m |-> <<>>]

NoGroup == [given |-> FALSE, dtype |-> "int64", ids |-> <<>>]

\* z = beta0 + np.dot(X, beta), in fixed point
LinPred(beta0, beta, X) == [i \in 1..NRows(X) |-> beta0 + Dot(X[i], beta)]

\* ------------------------------------------------------------------------
\* penalty
\* ------------------------------------------------------------------------
\* _L2penalty: [err, val]; val is the penalty times SCALE^2
L2penalty(beta, Tau) ==
  IF ~Tau.given
  THEN [err |-> "", val |-> Dot(beta, beta)]
  ELSE IF NRows(Tau.m) # Len(beta) \/ NCols(Tau.m) # Len(beta)
       THEN [err |-> "ValueError: Tau should be (n_features x n_features)", val |-> 0]
       ELSE [err |-> "", val |-> LET tb == MatVec(Tau.m, beta) IN Dot(tb, tb)]

\* the indices of beta whose group id is gid
Members(group, gid) == {i \in 1..Len(group.ids) : group.ids[i] = gid}

\* a set of indices as an increasing sequence
SetToSeq(S) ==
  [i \in 1..Cardinality(S) |-> CHOOSE x \in S : Cardinality({y \in S : y < x}) = i - 1]

\* beta[group == gid]
Select(beta, group, gid) ==
  LET idx == SetToSeq(Members(group, gid))
  IN [j \in 1..Len(idx) |-> beta[idx[j]]]

\* np.unique(group)
GroupIds(group) == {group.ids[i] : i \in 1..Len(group.ids)}

\* _L1penalty: the penalty times SCALE
L1penalty(beta, group) ==
  IF ~group.given
  THEN Norm1(beta)
  ELSE LET gids == SetToSeq(GroupIds(group) \ {0})
       IN SumSeq([j \in 1..Len(gids) |-> Norm2(Select(beta, group, gids[j]))])
          + Norm1(Select(beta, group, 0))

\* _loss for distr = 'gaussian': [err, val] with
\*   val = J * 2 * n_samples * SCALE^4   (an exact integer),
\*   J = -logL + reg_lambda * (0.5 * (1 - alpha) * L2 + alpha * L1),
\*   logL = -0.5 / n_samples * sum((y - z)^2)
loss(alpha, Tau, rl, X, y, group, beta) ==
  LET n  == NRows(X)
      z  == LinPred(beta[1], Rest(beta), X)
      sq == SumSeq([i \in 1..n |-> (y[i] * SCALE - z[i]) * (y[i] * SCALE - z[i])])
      P2 == L2penalty(Rest(beta), Tau)
      P1 == L1penalty(Rest(beta), group)
  IN IF P2.err # ""
     THEN [err |-> P2.err, val |-> 0]
     ELSE [err |-> "",
           val |-> SCALE * SCALE * sq
                   + n * rl * (SCALE - alpha) * P2.val
                   + 2 * n * SCALE * rl * alpha * P1]

\* ------------------------------------------------------------------------
\* proximal operator
\* ------------------------------------------------------------------------
\* the norm _prox compares with thresh at index i: the L2 norm of i's group,
\* or |beta[i]| for the ungrouped id 0
GroupNormAt(beta, group, i) ==
  IF group.ids[i] # 0 THEN Norm2(Select(beta, group, group.ids[i])) ELSE Abs(beta[i])

\* hard thresholding: a coefficient above the threshold is kept as it is
prox_hard(group, beta, thresh) ==
  [i \in 1..Len(beta) |-> IF Abs(beta[i]) > thresh THEN beta[i] ELSE 0]

\* GLM._prox(beta, thresh); beta is beta[1:] of the coefficient vector
prox(group, beta, thresh) ==
  IF ~group.given
  THEN [i \in 1..Len(beta) |->
          IF Abs(beta[i]) > thresh THEN Sign(beta[i]) * (Abs(beta[i]) - thresh) ELSE 0]
  ELSE [i \in 1..Len(beta) |->
          LET nrm == GroupNormAt(beta, group, i)
          IN IF nrm > 0 /\ nrm > thresh
             THEN beta[i] - Quot(thresh * beta[i], nrm)
             ELSE beta[i]]

\* a threshold that ignores alpha
Thresh_lambda(rl, alpha) == rl

\* rl * alpha, the threshold fit passes to _prox
Thresh(rl, alpha) == Quot(rl * alpha, SCALE)

\* ------------------------------------------------------------------------
\* batch gradient
\* ------------------------------------------------------------------------
\* _grad_L2loss for distr = 'gaussian': [err, g]
grad_L2loss(alpha, Tau, rl, X, y, beta) ==
  LET n      == NRows(X)
      p      == Len(beta) - 1
      T      == IF Tau.given THEN Tau.m ELSE Eye(p)
      InvCov == InvCovOf(T)
      z      == LinPred(beta[1], Rest(beta), X)
      r      == [i \in 1..n |-> z[i] - y[i] * SCALE]
  IN IF NCols(T) # p
     THEN [err |-> "ValueError: shapes not aligned", g |-> <<>>]
     ELSE LET reg == MatVec(InvCov, Rest(beta))
          IN [err |-> "",
              g |-> [k \in 1..(p + 1) |->
                       IF k = 1
                       THEN Quot(SumSeq(r), n)
                       ELSE Quot(Dot(r, Col(X, k - 1)), n)
                            + Quot(rl * (SCALE - alpha) * reg[k - 1], SCALE * SCALE)]]

\* beta - learning_rate * grad
GradStep(beta, learning_rate, g) ==
  [k \in 1..Len(beta) |-> beta[k] - Quot(learning_rate * g[k], SCALE)]

\* ------------------------------------------------------------------------
\* coordinate descent
\* ------------------------------------------------------------------------
\* GLM._gradhess_logloss_1d for distr = 'gaussian': gk and hk in fixed point
gradhess_logloss_1d(xk, y, z) ==
  LET n == Len(xk)
  IN [gk |-> Quot(SumSeq([i \in 1..n |-> (z[i] - y[i] * SCALE) * xk[i]]), n),
      hk |-> Quot(SCALE * Dot(xk, xk), n)]

\* numpy's u * v for 1-D arrays: a length-1 operand is broadcast
CanBroadcast(u, v) == Len(u) = Len(v) \/ Len(u) = 1 \/ Len(v) = 1

BMul(u, v) ==
  LET m == IF Len(u) >= Len(v) THEN Len(u) ELSE Len(v)
  IN [i \in 1..m |-> (IF Len(u) = 1 THEN u[1] ELSE u[i]) * (IF Len(v) = 1 THEN v[1] ELSE v[i])]

\* numpy row M[i, :] for a python index i that may be -1 (the last row)
PyRow(M, i) == IF i < 0 THEN M[NRows(M) + 1 + i] ELSE M[i + 1]

\* the body of _cdfast's loop for one active coordinate k (0 = intercept):
\* [err, beta, z]
cdfast_k(alpha, Tau, rl, X, y, z, beta, k) ==
  LET n         == NRows(X)
      xk        == IF k > 0 THEN Col(X, k) ELSE [i \in 1..n |-> 1]
      gh        == gradhess_logloss_1d(xk, y, z)
      reg_scale == Quot(rl * (SCALE - alpha), SCALE)
      InvCov    == IF Tau.given THEN InvCovOf(Tau.m) ELSE <<>>
      idxErr    == Tau.given /\ k - 1 >= NRows(InvCov)
      bcErr     == Tau.given /\ ~idxErr /\ ~CanBroadcast(PyRow(InvCov, k - 1), Rest(beta))
      gk_reg    == IF ~Tau.given THEN beta[k + 1]
                   ELSE SumSeq(BMul(PyRow(InvCov, k - 1), Rest(beta)))
      hk_reg    == IF ~Tau.given THEN 1 ELSE PyRow(InvCov, k - 1)[IF k = 0 THEN NRows(InvCov) ELSE k]
      gk        == gh.gk + (IF k > 0 THEN Quot(reg_scale * gk_reg, SCALE) ELSE 0)
      hk        == gh.hk + (IF k > 0 THEN reg_scale * hk_reg ELSE 0)
      update    == Quot(gk * SCALE, hk)
  IN IF idxErr THEN [err |-> "IndexError: index out of bounds", beta |-> beta, z |-> z]
     ELSE IF bcErr THEN [err |-> "ValueError: operands could not be broadcast together",
                         beta |-> beta, z |-> z]
     ELSE [err |-> "",
           beta |-> [beta EXCEPT ![k + 1] = beta[k + 1] - update],
           z |-> [i \in 1..n |-> z[i] - update * xk[i]]]

\* ------------------------------------------------------------------------
\* python slicing
\* ------------------------------------------------------------------------
\* an optional slice bound: None is [none |-> TRUE]
NoneB == [none |-> TRUE, v |-> 0]

IntB(i) == [none |-> FALSE, v |-> i]

IntKey(i) == [kind |-> "int", i |-> i, start |-> NoneB, stop |-> NoneB, step |-> 1]

SliceKey(a, b, st) == [kind |-> "slice", i |-> 0, start |-> a, stop |-> b, step |-> st]

\* a key that is neither a slice nor an int
OtherKey == [kind |-> "other", i |-> 0, start |-> NoneB, stop |-> NoneB, step |-> 1]

Clamp(x, lo, hi) == IF x < lo THEN lo ELSE IF x > hi THEN hi ELSE x

\* slice.indices(n): the first index and the bound of a slice over n items
SliceStart(key, n) ==
  IF key.step > 0
  THEN IF key.start.none THEN 0
       ELSE Clamp(IF key.start.v < 0 THEN key.start.v + n ELSE key.start.v, 0, n)
  ELSE IF key.start.none THEN n - 1
       ELSE Clamp(IF key.start.v < 0 THEN key.start.v + n ELSE key.start.v, -1, n - 1)

SliceStop(key, n) ==
  IF key.step > 0
  THEN IF key.stop.none THEN n
       ELSE Clamp(IF key.stop.v < 0 THEN key.stop.v + n ELSE key.stop.v, 0, n)
  ELSE IF key.stop.none THEN -1
       ELSE Clamp(IF key.stop.v < 0 THEN key.stop.v + n ELSE key.stop.v, -1, n - 1)

\* the 0-based indices a slice selects, in the order python yields them
RECURSIVE SliceFrom(_, _, _)
SliceFrom(i, stop, step) ==
  IF (step > 0 /\ i >= stop) \/ (step < 0 /\ i <= stop) THEN <<>>
  ELSE <<i>> \o SliceFrom(i + step, stop, step)

SliceIndices(key, n) == SliceFrom(SliceStart(key, n), SliceStop(key, n), key.step)

\* seq[key] for a slice key
PySlice(seq, key) ==
  LET idx == SliceIndices(key, Len(seq))
  IN [j \in 1..Len(idx) |-> seq[idx[j] + 1]]

\* an index that wraps around the end of the sequence
PyIndex_wrap(n, i) == IF n = 0 THEN 0 ELSE (i % n) + 1

\* seq[i] for an int key: the 1-based position, or 0 when out of range
PyIndex(n, i) ==
  IF i >= 0 /\ i < n THEN i + 1
  ELSE IF i < 0 /\ i >= -n THEN n + i + 1
  ELSE 0

\* ------------------------------------------------------------------------
\* objects: estimators hold references to mutable python objects
\* ------------------------------------------------------------------------
\* an attribute value: None, a number, or a reference to a heap object
None == [tag |-> "None", v |-> 0]

Num(n) == [tag |-> "num", v |-> n]

Ref(a) == [tag |-> "ref", v |-> a]

\* heap objects: a list of references (fit_), an array or list of numbers
\* (reg_lambda), a dict {'beta0': .., 'beta': ..} (one FitResult)
FreeObj == [kind |-> "free", items |-> <<>>, beta0 |-> 0, beta |-> <<>>]

ListObj(addrs) == [kind |-> "list", items |-> addrs, beta0 |-> 0, beta |-> <<>>]

NumsObj(xs) == [kind |-> "nums", items |-> xs, beta0 |-> 0, beta |-> <<>>]

DictObj(b0, b) == [kind |-> "dict", items |-> <<>>, beta0 |-> b0, beta |-> b]

\* the two estimator variables of the client: 1 is the constructed estimator,
\* 2 holds the result of the last slicing expression
Ests == 1..2

\* longest regularization path
MaxLam == 2

\* addresses: a reg_lambda object, a fit_ list and its dicts for each of the
\* two estimators and for the copy a slicing expression is building, plus
\* the list and the array the slicing of the copy creates
Addrs == 1..(3 * (MaxLam + 2) + 2)

\* est: the estimator variables; heap: the objects they reference; run: the
\* frame of the fit call in progress; out: the outcome of the last completed
\* call; calls: how many calls of each kind the client has made, and how many
\* fit calls have returned
VARIABLES est, heap, run, out, calls

vars == <<est, heap, run, out, calls>>

\* the addresses an attribute value reaches in heap h
ReachFrom(h, val) ==
  IF val.tag # "ref" THEN {}
  ELSE {val.v} \cup (IF h[val.v].kind = "list"
                     THEN {h[val.v].items[i] : i \in 1..Len(h[val.v].items)}
                     ELSE {})

\* everything estimator record e reaches
ReachEst(h, e) == IF e.exists THEN ReachFrom(h, e.fit_) \cup ReachFrom(h, e.reg_lambda) ELSE {}

\* reference-counting collection: objects no estimator reaches are freed
Collect(h, es) ==
  LET live == UNION {ReachEst(h, es[i]) : i \in Ests}
  IN [a \in Addrs |-> IF a \in live THEN h[a] ELSE FreeObj]

\* the n lowest free addresses, as a sequence
FreshAddrs(h, n) ==
  LET free == SetToSeq({a \in Addrs : h[a].kind = "free"})
  IN SubSeq(free, 1, n)

\* a copy that shares the objects of the original (copy.copy)
DeepCopy_shallow(h, val) == [val |-> val, heap |-> h]

\* deepcopy of the object graph under an attribute value: [val, heap]
DeepCopy(h, val) ==
  IF val.tag # "ref" THEN [val |-> val, heap |-> h]
  ELSE LET o == h[val.v]
       IN IF o.kind = "list"
          THEN LET fr == FreshAddrs(h, Len(o.items) + 1)
                   n  == Len(o.items)
               IN [val  |-> Ref(fr[n + 1]),
                   heap |-> [a \in Addrs |->
                               IF a = fr[n + 1] THEN ListObj(SubSeq(fr, 1, n))
                               ELSE IF \E i \in 1..n : fr[i] = a
                                    THEN h[o.items[CHOOSE i \in 1..n : fr[i] = a]]
                                    ELSE h[a]]]
          ELSE LET fr == FreshAddrs(h, 1)
               IN [val |-> Ref(fr[1]), heap |-> [h EXCEPT ![fr[1]] = o]]

\* the value an attribute denotes, with references followed (what a client
\* that reads the attribute sees): a kind and a sequence of number vectors
Deref(h, val) ==
  IF val.tag = "None" THEN [kind |-> "None", vals |-> <<>>]
  ELSE IF val.tag = "num" THEN [kind |-> "num", vals |-> << <<val.v>> >>]
  ELSE LET o == h[val.v]
       IN IF o.kind = "list"
          THEN [kind |-> "list",
                vals |-> [i \in 1..Len(o.items) |->
                            <<h[o.items[i]].beta0>> \o h[o.items[i]].beta]]
          ELSE IF o.kind = "dict" THEN [kind |-> "dict", vals |-> << <<o.beta0>> \o o.beta >>]
          ELSE [kind |-> "nums", vals |-> <<o.items>>]

\* ------------------------------------------------------------------------
\* construction
\* ------------------------------------------------------------------------
\* GLM.__init__ with reg_lambda stored at address a; a reg_lambda that is not
\* a list or array is wrapped into a one-element list
GLM(c) ==
  [exists        |-> TRUE,
   alpha         |-> c.alpha,
   reg_lambda    |-> Ref(1),
   Tau           |-> c.Tau,
   group         |-> c.group,
   solver        |-> c.solver,
   learning_rate |-> c.learning_rate,
   max_iter      |-> c.max_iter,
   fit_          |-> None,
   ynull_        |-> None,
   tol           |-> c.tol,
   score_metric  |-> c.score_metric]

\* the items of the reg_lambda object __init__ stores
InitLambda(c) == IF c.reg_lambda.islist THEN c.reg_lambda.v ELSE <<c.reg_lambda.v[1]>>

\* an estimator variable that is not bound yet
Absent ==
  [exists        |-> FALSE,
   alpha         |-> 0,
   reg_lambda    |-> None,
   Tau           |-> NoTau,
   group         |-> NoGroup,
   solver        |-> "",
   learning_rate |-> 0,
   max_iter      |-> 0,
   fit_          |-> None,
   ynull_        |-> None,
   tol           |-> 0,
   score_metric  |-> ""]

\* the frame of the fit call in progress; no call is in progress at pc = "idle"
IdleRun ==
  [pc |-> "idle", self |-> 0, X |-> <<>>, y |-> <<>>, l |-> 0, t |-> 0, k |-> 0,
   beta0_hat |-> 0, beta_hat |-> <<>>, fit_params |-> <<>>,
   beta |-> <<>>, z |-> <<>>, ActiveSet |-> <<>>, L |-> <<>>,
   path |-> <<>>, nupd |-> 0]

\* the arguments of a call that the outcome records: the type of X of a fit
\* call that raised, the arguments of a direct call of a function
NoArg ==
  [xtype |-> "", beta |-> <<>>, thresh |-> 0, z |-> 0, distr |-> "",
   random_state |-> 0, sample |-> FALSE]

\* the outcome of the last completed call: err = "" when it returned; how
\* names the expression a returned value was computed by and gen the random
\* generator it was drawn from, where a property depends on them
NoOut ==
  [op |-> "", self |-> 0, err |-> "", nupd |-> 0, key |-> OtherKey,
   fit_params |-> <<>>, path |-> <<>>, val |-> <<>>, arg |-> NoArg,
   how |-> "", gen |-> 0]

\* ------------------------------------------------------------------------
\* fit
\* ------------------------------------------------------------------------
\* stand-in for the high bits of an IEEE-754 double read as an integer
BitsBase == 1048576

\* the int64 a nonzero float64 with fixed-point value v is reinterpreted as
Float64Bits(v) == IF v = 0 THEN 0 ELSE BitsBase + v

\* self.group = np.array(self.group); self.group.dtype = np.int64
\* (assigning dtype reinterprets the bytes of the array, it does not convert)
AsInt64(group) ==
  [given |-> TRUE,
   dtype |-> "int64",
   ids   |-> [i \in 1..Len(group.ids) |->
                IF group.dtype = "int64" THEN group.ids[i] ELSE Float64Bits(group.ids[i])]]

\* isinstance(g, np.int64) for the elements g of an array of the given dtype
IsInt64Elem(dtype) == dtype = "int64"

\* the error fit's argument checks raise, "" when they pass; g is self.group
\* after the conversion of line 535-536
FitCheck(g, X) ==
  IF g.given /\ X.type # "ndarray"
  THEN "AttributeError: object has no attribute 'shape'"
  ELSE IF g.given /\ Len(g.ids) # NCols(X.rows)
  THEN "ValueError: group should be (n_features,)"
  ELSE IF g.given /\ ~(\A i \in 1..Len(g.ids) : IsInt64Elem(g.dtype))
  THEN "ValueError: all entries of group should be integers"
  ELSE IF X.type # "ndarray"
  THEN "ValueError: Input data should be of type ndarray"
  ELSE ""

\* the fit call raises err: the frame is dropped, nothing is published
Raise(err) ==
  /\ run' = IdleRun
  /\ out' = [NoOut EXCEPT !.op = "fit", !.self = run.self, !.err = err,
                          !.nupd = run.nupd, !.path = run.path]
  /\ UNCHANGED <<est, heap, calls>>

\* a path that is walked from its last entry to its first
RunPath_reversed ==
  LET items == heap[est[run.self].reg_lambda.v].items
  IN [i \in 1..Len(items) |-> items[Len(items) + 1 - i]]

\* the items of self.reg_lambda of the estimator being fitted
RunPath == heap[est[run.self].reg_lambda.v].items

\* np.abs(DL[-1] / L[-1]) < tol; a zero L[-1] gives inf or nan, never < tol
Converged(DL, Lv, tol) == Lv # 0 /\ Abs(DL) * SCALE < tol * Abs(Lv)

\* a fit that forgets the results of the previous call when it starts
FitCall_reset(e, X, y, draw) ==
  /\ run.pc = "idle"
  /\ est[e].exists
  /\ LET g   == IF est[e].group.given THEN AsInt64(est[e].group) ELSE est[e].group
         err == FitCheck(g, X)
         p   == NCols(X.rows)
         es  == [est EXCEPT ![e].group = g, ![e].fit_ = None, ![e].ynull_ = None]
     IN /\ est' = es
        /\ heap' = Collect(heap, es)
        /\ IF err # ""
           THEN /\ run' = IdleRun
                /\ out' = [NoOut EXCEPT !.op = "fit", !.self = e, !.err = err,
                                        !.arg.xtype = X.type]
           ELSE /\ run' = [IdleRun EXCEPT !.pc = "loop", !.self = e, !.X = X.rows, !.y = y,
                                          !.beta0_hat = Quot(draw[1], p + 1),
                                          !.beta_hat = [i \in 1..p |-> Quot(draw[i + 1], p + 1)]]
                /\ out' = NoOut
  /\ calls' = [calls EXCEPT !.fit = calls.fit + 1]

\* fit(X, y) is called on estimator e: lines 531-556.  draw is the vector of
\* n_features + 1 standard normal draws taken from the global generator.
FitCall(e, X, y, draw) ==
  /\ run.pc = "idle"
  /\ est[e].exists
  /\ LET g   == IF est[e].group.given THEN AsInt64(est[e].group) ELSE est[e].group
         err == FitCheck(g, X)
         p   == NCols(X.rows)
     IN /\ est' = [est EXCEPT ![e].group = g]
        /\ IF err # ""
           THEN /\ run' = IdleRun
                /\ out' = [NoOut EXCEPT !.op = "fit", !.self = e, !.err = err,
                                        !.arg.xtype = X.type]
           ELSE /\ run' = [IdleRun EXCEPT !.pc = "loop", !.self = e, !.X = X.rows, !.y = y,
                                          !.beta0_hat = Quot(draw[1], p + 1),
                                          !.beta_hat = [i \in 1..p |-> Quot(draw[i + 1], p + 1)]]
                /\ out' = NoOut
  /\ calls' = [calls EXCEPT !.fit = calls.fit + 1]
  /\ UNCHANGED heap

\* line 559 on an estimator whose reg_lambda is a number (an estimator sliced
\* with an int key): enumerate raises
FitNotIterable ==
  /\ run.pc = "loop"
  /\ est[run.self].reg_lambda.tag # "ref"
  /\ Raise("TypeError: object is not iterable")

\* a fit that starts every lambda from the initial draw
WarmStart_cold(l, beta0_hat, beta_hat, fit_params) ==
  [beta0 |-> beta0_hat, beta |-> beta_hat]

\* lines 563-569: the entry lambda l starts from: the initial draw for the
\* first lambda, the entry of the previous lambda (fit_params[-2]) otherwise
WarmStart(l, beta0_hat, beta_hat, fit_params) ==
  IF l = 0
  THEN [beta0 |-> beta0_hat, beta |-> beta_hat]
  ELSE fit_params[l]

\* a lambda that starts with the active set the previous lambda left
LambdaStart_keep ==
  /\ run.pc = "loop"
  /\ est[run.self].reg_lambda.tag = "ref"
  /\ run.l < Len(RunPath)
  /\ LET start == WarmStart(run.l, run.beta0_hat, run.beta_hat, run.fit_params)
         beta  == <<start.beta0>> \o start.beta
         cd    == est[run.self].solver = "cdfast"
     IN run' = [run EXCEPT !.fit_params = Append(run.fit_params, start),
                           !.beta = beta,
                           !.ActiveSet = IF cd /\ run.l = 0 THEN [i \in 1..Len(beta) |-> 1]
                                        ELSE run.ActiveSet,
                           !.z = IF cd THEN LinPred(beta[1], Rest(beta), run.X) ELSE <<>>,
                           !.L = <<>>,
                           !.t = 0,
                           !.path = Append(run.path, RunPath[run.l + 1]),
                           !.pc = "iter"]
  /\ UNCHANGED <<est, heap, out, calls>>

\* lines 559-586: the next lambda of the path, warm start and solver state
LambdaStart ==
  /\ run.pc = "loop"
  /\ est[run.self].reg_lambda.tag = "ref"
  /\ run.l < Len(RunPath)
  /\ LET start == WarmStart(run.l, run.beta0_hat, run.beta_hat, run.fit_params)
         beta  == <<start.beta0>> \o start.beta
         cd    == est[run.self].solver = "cdfast"
     IN run' = [run EXCEPT !.fit_params = Append(run.fit_params, start),
                           !.beta = beta,
                           !.ActiveSet = IF cd THEN [i \in 1..Len(beta) |-> 1] ELSE <<>>,
                           !.z = IF cd THEN LinPred(beta[1], Rest(beta), run.X) ELSE <<>>,
                           !.L = <<>>,
                           !.t = 0,
                           !.path = Append(run.path, RunPath[run.l + 1]),
                           !.pc = "iter"]
  /\ UNCHANGED <<est, heap, out, calls>>

\* a loop that runs one iteration too many
InRange_inclusive(t, max_iter) == t >= 0 /\ t <= max_iter

\* t in range(0, max_iter)
InRange(t, max_iter) == t >= 0 /\ t < max_iter

\* line 587: the inner loop runs iteration t
IterBegin ==
  /\ run.pc = "iter"
  /\ InRange(run.t, est[run.self].max_iter)
  /\ run' = [run EXCEPT !.k = 0,
                        !.pc = IF est[run.self].solver = "batch-gradient" THEN "grad"
                               ELSE IF est[run.self].solver = "cdfast" THEN "cd"
                               ELSE "prox"]
  /\ UNCHANGED <<est, heap, out, calls>>

\* lines 588-594: one batch gradient step
GradientStep ==
  /\ run.pc = "grad"
  /\ \E self \in {est[run.self]} :
     \E r \in {grad_L2loss(self.alpha, self.Tau, RunPath[run.l + 1], run.X, run.y, run.beta)} :
        IF r.err # ""
        THEN Raise(r.err)
        ELSE /\ run' = [run EXCEPT !.beta = GradStep(run.beta, self.learning_rate, r.g),
                                   !.nupd = run.nupd + 1,
                                   !.pc = "prox"]
             /\ UNCHANGED <<est, heap, out, calls>>

\* a sweep that updates the coordinates whose active-set entry is cleared too
CdCoord_all ==
  /\ run.pc = "cd"
  /\ \E r \in {cdfast_k(est[run.self].alpha, est[run.self].Tau, RunPath[run.l + 1],
                         run.X, run.y, run.z, run.beta, run.k)},
        next \in {IF run.k = Len(run.beta) - 1 THEN "prox" ELSE "cd"} :
        IF r.err # ""
        THEN Raise(r.err)
        ELSE /\ run' = [run EXCEPT !.beta = r.beta, !.z = r.z,
                                   !.nupd = run.nupd + 1,
                                   !.k = run.k + 1, !.pc = next]
             /\ UNCHANGED <<est, heap, out, calls>>

\* lines 487-512: coordinate k of one _cdfast sweep
CdCoord ==
  /\ run.pc = "cd"
  /\ \E r \in {cdfast_k(est[run.self].alpha, est[run.self].Tau, RunPath[run.l + 1],
                         run.X, run.y, run.z, run.beta, run.k)},
        next \in {IF run.k = Len(run.beta) - 1 THEN "prox" ELSE "cd"} :
        IF run.ActiveSet[run.k + 1] = 0
        THEN /\ run' = [run EXCEPT !.k = run.k + 1, !.pc = next]
             /\ UNCHANGED <<est, heap, out, calls>>
        ELSE IF r.err # ""
        THEN Raise(r.err)
        ELSE /\ run' = [run EXCEPT !.beta = r.beta, !.z = r.z,
                                   !.nupd = run.nupd + 1,
                                   !.k = run.k + 1, !.pc = next]
             /\ UNCHANGED <<est, heap, out, calls>>

\* a proximal step that thresholds the intercept too
ProxStep_all ==
  /\ run.pc = "prox"
  /\ \E self \in {est[run.self]} :
     \E b \in {prox(NoGroup, run.beta, Thresh(RunPath[run.l + 1], self.alpha))} :
        run' = [run EXCEPT !.beta = b,
                           !.nupd = run.nupd + 1,
                           !.pc = IF self.solver = "cdfast" THEN "aset" ELSE "loss"]
  /\ UNCHANGED <<est, heap, out, calls>>

\* line 599: the proximal operator on beta[1:]
ProxStep ==
  /\ run.pc = "prox"
  /\ \E self \in {est[run.self]} :
     \E b \in {prox(self.group, Rest(run.beta), Thresh(RunPath[run.l + 1], self.alpha))} :
        run' = [run EXCEPT !.beta = <<run.beta[1]>> \o b,
                           !.nupd = run.nupd + 1,
                           !.pc = IF self.solver = "cdfast" THEN "aset" ELSE "loss"]
  /\ UNCHANGED <<est, heap, out, calls>>

\* an update that also clears the entries of small coefficients
ActiveSetUpdate_small ==
  /\ run.pc = "aset"
  /\ run' = [run EXCEPT !.ActiveSet = [i \in 1..Len(run.ActiveSet) |->
                                         IF i > 1 /\ Abs(run.beta[i]) <= SCALE \div 2 THEN 0
                                         ELSE run.ActiveSet[i]],
                        !.pc = "loss"]
  /\ UNCHANGED <<est, heap, out, calls>>

\* lines 602-603: ActiveSet[np.where(beta[1:] == 0)[0] + 1] = 0
ActiveSetUpdate ==
  /\ run.pc = "aset"
  /\ run' = [run EXCEPT !.ActiveSet = [i \in 1..Len(run.ActiveSet) |->
                                         IF i > 1 /\ run.beta[i] = 0 THEN 0
                                         ELSE run.ActiveSet[i]],
                        !.pc = "loss"]
  /\ UNCHANGED <<est, heap, out, calls>>

\* a break test that is already applied in iteration 1
Break_early(t, L, tol) ==
  t > 0 /\ Converged(L[Len(L)] - L[Len(L) - 1], L[Len(L)], tol)

\* lines 609-617: the break test after the loss of iteration t was appended
\* to L (DL[-1] is L[-1] - L[-2])
Break(t, L, tol) ==
  t > 1 /\ Converged(L[Len(L)] - L[Len(L) - 1], L[Len(L)], tol)

\* lines 606-617: the loss of iteration t and the convergence test
LossStep ==
  /\ run.pc = "loss"
  /\ \E J \in {loss(est[run.self].alpha, est[run.self].Tau, RunPath[run.l + 1],
                     run.X, run.y, est[run.self].group, run.beta)},
        self \in {est[run.self]} :
     \E L \in {Append(run.L, J.val)} :
        IF J.err # ""
        THEN Raise(J.err)
        ELSE /\ run' = IF Break(run.t, L, self.tol)
                       THEN [run EXCEPT !.L = L, !.pc = "store"]
                       ELSE [run EXCEPT !.L = L, !.t = run.t + 1, !.pc = "iter"]
             /\ UNCHANGED <<est, heap, out, calls>>

\* lines 619-620: the inner loop is over (break, or range exhausted); the
\* current iterate becomes the entry of this lambda
LambdaEnd ==
  /\ \/ run.pc = "store"
     \/ run.pc = "iter" /\ ~InRange(run.t, est[run.self].max_iter)
  /\ run' = [run EXCEPT !.fit_params[run.l + 1] =
                           [beta0 |-> run.beta[1], beta |-> Rest(run.beta)],
                        !.l = run.l + 1,
                        !.pc = "loop"]
  /\ UNCHANGED <<est, heap, out, calls>>

\* np.mean(y), in fixed point
Mean(y) == Quot(SumSeq(y) * SCALE, Len(y))

\* a fit that appends its results to the list of the previous fit
Publish_keep(h, fit_params) ==
  LET n   == Len(fit_params)
      fr  == FreshAddrs(h, n + 1)
      old == IF est[run.self].fit_.tag = "ref" THEN h[est[run.self].fit_.v].items ELSE <<>>
  IN [val  |-> Ref(fr[n + 1]),
      heap |-> [a \in Addrs |->
                  IF a = fr[n + 1] THEN ListObj(old \o SubSeq(fr, 1, n))
                  ELSE IF \E i \in 1..n : fr[i] = a
                       THEN LET i == CHOOSE j \in 1..n : fr[j] = a
                            IN DictObj(fit_params[i].beta0, fit_params[i].beta)
                       ELSE h[a]]]

\* self.fit_ = fit_params: the list and its dicts become objects of the heap
Publish(h, fit_params) ==
  LET n  == Len(fit_params)
      fr == FreshAddrs(h, n + 1)
  IN [val  |-> Ref(fr[n + 1]),
      heap |-> [a \in Addrs |->
                  IF a = fr[n + 1] THEN ListObj(SubSeq(fr, 1, n))
                  ELSE IF \E i \in 1..n : fr[i] = a
                       THEN LET i == CHOOSE j \in 1..n : fr[j] = a
                            IN DictObj(fit_params[i].beta0, fit_params[i].beta)
                       ELSE h[a]]]

\* lines 622-627: the path is exhausted, fit stores its results and returns
FitReturn ==
  /\ run.pc = "loop"
  /\ est[run.self].reg_lambda.tag = "ref"
  /\ run.l >= Len(RunPath)
  /\ \E pub \in {Publish(heap, run.fit_params)} :
       \E es \in {[est EXCEPT ![run.self].fit_ = pub.val,
                               ![run.self].ynull_ = Num(Mean(run.y))]} :
          /\ est' = es
          /\ heap' = Collect(pub.heap, es)
  /\ run' = IdleRun
  /\ out' = [NoOut EXCEPT !.op = "fit", !.self = run.self, !.nupd = run.nupd,
                          !.fit_params = run.fit_params, !.path = run.path]
  /\ calls' = [calls EXCEPT !.returned = calls.returned + 1]

\* ------------------------------------------------------------------------
\* slicing, score, predict
\* ------------------------------------------------------------------------
\* a slicing that leaves an array of numbers (reg_lambda) as it is
GetItemOf_keep(h, val, key) ==
  IF val.tag # "ref"
  THEN [err |-> "TypeError: object is not subscriptable", val |-> val, heap |-> h]
  ELSE LET o == h[val.v]
       IN IF o.kind = "dict"
          THEN [err |-> IF key.kind = "int" THEN "KeyError" ELSE "TypeError: unhashable type: 'slice'",
                val |-> val, heap |-> h]
          ELSE IF key.kind = "int"
          THEN LET i == PyIndex(Len(o.items), key.i)
               IN IF i = 0
                  THEN [err |-> "IndexError: index out of range", val |-> val, heap |-> h]
                  ELSE [err |-> "",
                        val |-> IF o.kind = "list" THEN Ref(o.items[i]) ELSE Num(o.items[i]),
                        heap |-> h]
          ELSE IF o.kind = "nums"
          THEN [err |-> "", val |-> val, heap |-> h]
          ELSE LET a == FreshAddrs(h, 1)[1]
               IN [err |-> "", val |-> Ref(a),
                   heap |-> [h EXCEPT ![a] = [o EXCEPT !.items = PySlice(o.items, key)]]]

\* obj[key] for the object an attribute value denotes: [err, val, heap].
\* A list or array gives an item (int key) or a new list or array (slice); a
\* dict has neither int nor slice keys; a number is not subscriptable.
GetItemOf(h, val, key) ==
  IF val.tag # "ref"
  THEN [err |-> "TypeError: object is not subscriptable", val |-> val, heap |-> h]
  ELSE LET o == h[val.v]
       IN IF o.kind = "dict"
          THEN [err |-> IF key.kind = "int" THEN "KeyError" ELSE "TypeError: unhashable type: 'slice'",
                val |-> val, heap |-> h]
          ELSE IF key.kind = "int"
          THEN LET i == PyIndex(Len(o.items), key.i)
               IN IF i = 0
                  THEN [err |-> "IndexError: index out of range", val |-> val, heap |-> h]
                  ELSE [err |-> "",
                        val |-> IF o.kind = "list" THEN Ref(o.items[i]) ELSE Num(o.items[i]),
                        heap |-> h]
          ELSE LET a == FreshAddrs(h, 1)[1]
               IN [err |-> "", val |-> Ref(a),
                   heap |-> [h EXCEPT ![a] = [o EXCEPT !.items = PySlice(o.items, key)]]]

\* glm = deepcopy(self), line 342: [glm, heap]
CopyOf(h, self) ==
  LET c1 == DeepCopy(h, self.fit_)
      c2 == DeepCopy(c1.heap, self.reg_lambda)
  IN [glm |-> [self EXCEPT !.fit_ = c1.val, !.reg_lambda = c2.val], heap |-> c2.heap]

\* GLM.__getitem__(key) on estimator e; the client binds the result to
\* estimator variable 2
GetItem(e, key) ==
  /\ run.pc = "idle"
  /\ est[e].exists
  /\ LET cp == CopyOf(heap, est[e])
         f  == GetItemOf(cp.heap, cp.glm.fit_, key)
         r  == GetItemOf(f.heap, cp.glm.reg_lambda, key)
         err == IF est[e].fit_.tag = "None"
                THEN "ValueError: Cannot slice object if the lambdas have not been fit."
                ELSE IF key.kind \notin {"slice", "int"}
                THEN "IndexError: Invalid slice for GLM object"
                ELSE IF f.err # "" THEN f.err
                ELSE r.err
     IN /\ out' = [NoOut EXCEPT !.op = "getitem", !.self = e, !.err = err, !.key = key]
        /\ IF err # ""
           THEN UNCHANGED <<est, heap>>
           ELSE LET es == [est EXCEPT ![2] = [cp.glm EXCEPT !.fit_ = f.val, !.reg_lambda = r.val]]
                IN /\ est' = es
                   /\ heap' = Collect(r.heap, es)
  /\ calls' = [calls EXCEPT !.getitem = calls.getitem + 1]
  /\ UNCHANGED run

\* _lmb for distr = 'gaussian' on one FitResult object
lmb(o, X) == LinPred(o.beta0, o.beta, X)

\* the error GLM.predict(X) raises, "" when it returns
PredictErr(h, self, X) ==
  IF X.type # "ndarray" THEN "ValueError: Input data should be of type ndarray"
  ELSE IF self.fit_.tag = "None" THEN "TypeError: 'NoneType' object is not subscriptable"
  ELSE ""

\* the value GLM.predict(X) returns: one row per FitResult of a list, a
\* single row for a dict
PredictVal(h, self, X) ==
  LET o == h[self.fit_.v]
  IN IF o.kind = "list"
     THEN [i \in 1..Len(o.items) |-> lmb(h[o.items[i]], X.rows)]
     ELSE <<lmb(o, X.rows)>>

\* GLM.predict(X) on estimator e
Predict(e, X) ==
  /\ run.pc = "idle"
  /\ est[e].exists
  /\ LET err == PredictErr(heap, est[e], X)
     IN out' = [NoOut EXCEPT !.op = "predict", !.self = e, !.err = err,
                             !.val = IF err = "" THEN PredictVal(heap, est[e], X) ELSE <<>>]
  /\ calls' = [calls EXCEPT !.query = calls.query + 1]
  /\ UNCHANGED <<est, heap, run>>

\* a score without the test of ynull_
ScoreErr_nocheck(h, self, X) ==
  IF self.score_metric \notin {"deviance", "pseudo_R2", "accuracy"}
  THEN "ValueError: score_metric has to be one of deviance or pseudo_R2"
  ELSE IF self.score_metric = "accuracy"
  THEN "ValueError: accuracy is only defined for binomial or multinomial distributions"
  ELSE PredictErr(h, self, X)

\* the error GLM.score(X, y) raises up to its call of predict, "" when none
\* (distr = 'gaussian', so score_metric = 'accuracy' is rejected)
ScoreErr(h, self, X) ==
  IF self.score_metric \notin {"deviance", "pseudo_R2", "accuracy"}
  THEN "ValueError: score_metric has to be one of deviance or pseudo_R2"
  ELSE IF self.ynull_.tag = "None"
  THEN "ValueError: Model must be fit before prediction can be scored"
  ELSE IF self.score_metric = "accuracy"
  THEN "ValueError: accuracy is only defined for binomial or multinomial distributions"
  ELSE PredictErr(h, self, X)

\* GLM.score(X, y) on estimator e, up to the call of the metrics module
Score(e, X, y) ==
  /\ run.pc = "idle"
  /\ est[e].exists
  /\ out' = [NoOut EXCEPT !.op = "score", !.self = e, !.err = ScoreErr(heap, est[e], X)]
  /\ calls' = [calls EXCEPT !.query = calls.query + 1]
  /\ UNCHANGED <<est, heap, run>>

\* ------------------------------------------------------------------------
\* client writes through the public attributes
\* ------------------------------------------------------------------------
\* the value a client writes
PokeVal == 99

\* estimator e's fit_[i]['beta0'] = PokeVal (fit_['beta0'] when fit_ is a dict)
PokeFit(e, i) ==
  /\ run.pc = "idle"
  /\ est[e].exists
  /\ est[e].fit_.tag = "ref"
  /\ LET o == heap[est[e].fit_.v]
     IN IF o.kind = "list"
        THEN /\ i \in 1..Len(o.items)
             /\ heap' = [heap EXCEPT ![o.items[i]].beta0 = PokeVal]
        ELSE /\ i = 1
             /\ heap' = [heap EXCEPT ![est[e].fit_.v].beta0 = PokeVal]
  /\ out' = [NoOut EXCEPT !.op = "poke", !.self = e]
  /\ calls' = [calls EXCEPT !.poke = calls.poke + 1]
  /\ UNCHANGED <<est, run>>

\* estimator e's reg_lambda[i] = PokeVal
PokeLambda(e, i) ==
  /\ run.pc = "idle"
  /\ est[e].exists
  /\ est[e].reg_lambda.tag = "ref"
  /\ i \in 1..Len(heap[est[e].reg_lambda.v].items)
  /\ heap' = [heap EXCEPT ![est[e].reg_lambda.v].items[i] = PokeVal]
  /\ out' = [NoOut EXCEPT !.op = "poke", !.self = e]
  /\ calls' = [calls EXCEPT !.poke = calls.poke + 1]
  /\ UNCHANGED <<est, run>>

\* ------------------------------------------------------------------------
\* configurations and inputs
\* ------------------------------------------------------------------------
\* largest max_iter
MaxIter == 4

\* fit calls per behaviour of the path specification
MaxFits == 2

\* calls (fit, slicing, writes, score, predict) per behaviour of the client specification
MaxCalls == 3

Solvers == {"batch-gradient", "cdfast"}

\* alpha = 0, 0.5, 1
Alphas == {0, SCALE \div 2, SCALE}

\* a well-formed Tau for two features, a 3 x 2 one and a 1 x 1 one
GoodTau == [given |-> TRUE, m |-> << <<1, 1>>, <<0, 1>> >>]

TallTau == [given |-> TRUE, m |-> << <<1, 0>>, <<0, 1>>, <<1, 1>> >>]

TinyTau == [given |-> TRUE, m |-> << <<1>> >>]

Taus == {NoTau, GoodTau, TallTau, TinyTau}

\* group = [1, 1], [1] (wrong length) and [1.5, 1.5] (not integers)
IntGroup == [given |-> TRUE, dtype |-> "int64", ids |-> <<1, 1>>]

ShortGroup == [given |-> TRUE, dtype |-> "int64", ids |-> <<1>>]

FloatGroup == [given |-> TRUE, dtype |-> "float64", ids |-> <<SCALE + SCALE \div 2, SCALE + SCALE \div 2>>]

Groups == {NoGroup, IntGroup, ShortGroup, FloatGroup}

\* the descending path 1.0, 0.5, ... of n lambdas
PathOf(n) == [i \in 1..n |-> SCALE \div (2 ^ (i - 1))]

\* reg_lambda arguments: a list, or a bare number (held in v[1])
RegLambdas ==
  {[islist |-> TRUE, v |-> PathOf(n)] : n \in 1..MaxLam} \cup {[islist |-> FALSE, v |-> <<SCALE>>]}

ScoreMetrics == {"deviance", "r2"}

\* the constructor arguments of the estimator
AllConfigs ==
  [solver : Solvers, alpha : Alphas, Tau : Taus, group : Groups, reg_lambda : RegLambdas,
   max_iter : 0..MaxIter, tol : {1}, learning_rate : {SCALE \div 4},
   score_metric : ScoreMetrics]

\* the reference configuration
BaseConfig ==
  [solver |-> "cdfast", alpha |-> SCALE \div 2, Tau |-> NoTau, group |-> NoGroup,
   reg_lambda |-> [islist |-> TRUE, v |-> PathOf(MaxLam)],
   max_iter |-> MaxIter, tol |-> 1, learning_rate |-> SCALE \div 4,
   score_metric |-> "deviance"]

\* in how many arguments c differs from the reference configuration
Deviations(c) ==
  Cardinality({f \in DOMAIN c : c[f] # BaseConfig[f]})

\* the configurations explored: up to two arguments away from the reference
Configs == {c \in AllConfigs : Deviations(c) <= 2}

\* design matrices (2 samples, 2 features), as an array and as a list
XArgs ==
  {[type |-> "ndarray", rows |-> << <<1, 0>>, <<1, 1>> >>],
   [type |-> "list", rows |-> << <<1, 0>>, <<1, 1>> >>]}

Ys == {<<1, 2>>, <<0, -1>>}

\* vectors of standard normal draws (fixed point) for the initial coefficients
Draws ==
  {<<SCALE, -SCALE, 2 * SCALE>>, <<0, 0, 3 * SCALE>>, <<3 * SCALE, 3 * SCALE, 3 * SCALE>>}

\* slicing keys
Keys ==
  {IntKey(i) : i \in -1..MaxLam}
  \cup {SliceKey(NoneB, NoneB, 1), SliceKey(IntB(0), IntB(1), 1), SliceKey(IntB(1), NoneB, 1),
        SliceKey(NoneB, NoneB, -1), OtherKey}

\* the configurations of the client specification: short fits, at most one
\* argument away from the reference
ClientBase == [BaseConfig EXCEPT !.max_iter = 1]

ClientConfigs ==
  {c \in [solver : Solvers, alpha : {SCALE \div 2}, Tau : {NoTau}, group : {NoGroup, ShortGroup},
          reg_lambda : RegLambdas, max_iter : {1}, tol : {1}, learning_rate : {SCALE \div 4},
          score_metric : ScoreMetrics] :
     Cardinality({f \in DOMAIN c : c[f] # ClientBase[f]}) <= 1}

ClientYs == {<<1, 2>>}

ClientDraws == {<<SCALE, -SCALE, 2 * SCALE>>}

\* ------------------------------------------------------------------------
\* specifications
\* ------------------------------------------------------------------------
\* the state after GLM(...) with one of the configurations cs
InitWith(cs) ==
  /\ \E c \in cs :
       /\ est = [e \in Ests |-> IF e = 1 THEN GLM(c) ELSE Absent]
       /\ heap = [a \in Addrs |-> IF a = 1 THEN NumsObj(InitLambda(c)) ELSE FreeObj]
  /\ run = IdleRun
  /\ out = NoOut
  /\ calls = [fit |-> 0, getitem |-> 0, poke |-> 0, query |-> 0, returned |-> 0]

\* the steps of a fit call in progress on an estimator whose reg_lambda is a
\* list or an array
FitStep ==
  \/ LambdaStart
  \/ IterBegin
  \/ GradientStep
  \/ CdCoord
  \/ ProxStep
  \/ ActiveSetUpdate
  \/ LossStep
  \/ LambdaEnd
  \/ FitReturn

NCalls == calls.fit + calls.getitem + calls.poke + calls.query

\* the client specification: a client that fits, slices, scores, predicts
\* and writes through the attributes of its two estimator variables
Init == InitWith(ClientConfigs)

Next ==
  \/ \E e \in Ests, X \in XArgs, y \in ClientYs, d \in ClientDraws :
       NCalls < MaxCalls /\ FitCall(e, X, y, d)
  \/ FitNotIterable
  \/ FitStep
  \/ \E e \in Ests, key \in Keys : NCalls < MaxCalls /\ GetItem(e, key)
  \/ \E e \in Ests, X \in XArgs : NCalls < MaxCalls /\ Predict(e, X)
  \/ \E e \in Ests, X \in XArgs, y \in ClientYs : NCalls < MaxCalls /\ Score(e, X, y)
  \/ \E e \in Ests, i \in 1..MaxLam : NCalls < MaxCalls /\ PokeFit(e, i)
  \/ \E e \in Ests, i \in 1..MaxLam : NCalls < MaxCalls /\ PokeLambda(e, i)

Spec == Init /\ [][Next]_vars

\* the path specification: fit calls on one estimator, over the wide range of
\* configurations and inputs
PathInit == InitWith(Configs)

PathNext ==
  \/ \E X \in XArgs, y \in Ys, d \in Draws : calls.fit < MaxFits /\ FitCall(1, X, y, d)
  \/ FitStep

PathSpec == PathInit /\ [][PathNext]_vars

\* ------------------------------------------------------------------------
\* direct calls of the functions
\* ------------------------------------------------------------------------
\* largest coefficient of a direct call of _prox, in units of SCALE / 2
MaxCoef == 2

\* the coefficient vectors (beta[1:]) and thresholds of direct calls
CoefVals == {k * (SCALE \div 2) : k \in -MaxCoef..MaxCoef}

Betas == {<<a, b>> : a \in CoefVals, b \in CoefVals}

Threshes == {0, SCALE \div 4, SCALE \div 2, SCALE}

\* a group array with one group and one ungrouped feature
MixedGroup == [given |-> TRUE, dtype |-> "int64", ids |-> <<0, 1>>]

\* self._prox(beta, thresh) on estimator e, whose group is None or an integer
\* array
ProxCall(e, beta, thresh) ==
  /\ run.pc = "idle"
  /\ est[e].exists
  /\ out' = [NoOut EXCEPT !.op = "prox", !.self = e,
                          !.arg.beta = beta, !.arg.thresh = thresh,
                          !.val = <<prox(est[e].group, beta, thresh)>>]
  /\ UNCHANGED <<est, heap, run, calls>>

\* distributions.softplus on one element z: the expression that computes it
softplus(z) ==
  IF z > 35 THEN "z"
  ELSE IF z < -10 THEN "exp(z)"
  ELSE "log1p(exp(z))"

\* _qu(distr, z, eta) for distr = 'softplus' on one element z
qu_softplus(z) == "log1p(exp(z))"

\* the elements softplus is evaluated at: around the two region borders
Zs == {-11, -10, 0, 35, 36}

SoftplusCall(z) ==
  /\ run.pc = "idle"
  /\ out' = [NoOut EXCEPT !.op = "softplus", !.arg.z = z, !.how = softplus(z)]
  /\ UNCHANGED <<est, heap, run, calls>>

QuCall(z) ==
  /\ run.pc = "idle"
  /\ out' = [NoOut EXCEPT !.op = "_qu", !.arg.z = z, !.arg.distr = "softplus",
                          !.how = qu_softplus(z)]
  /\ UNCHANGED <<est, heap, run, calls>>

\* the distribution classes that define simulate, and the draw of each
Distributions ==
  {"Gaussian", "Poisson", "PoissonSoftplus", "NegBinomialSoftplus", "Binomial", "Probit",
   "GammaSoftplus"}

Law(distr) ==
  IF distr = "Gaussian" THEN "normal(mu)"
  ELSE IF distr \in {"Poisson", "PoissonSoftplus"} THEN "poisson(mu)"
  ELSE IF distr = "NegBinomialSoftplus" THEN "negative_binomial(theta, p)"
  ELSE "binomial(1, mu)"

\* the seeds passed as random_state; NoGen: no generator was used
RandomStates == {1, 2}

NoGen == 0

\* <distribution>.simulate(beta0, beta, X, random_state, sample): how the
\* returned value is computed and the generator it is drawn from
simulate(distr, random_state, sample) ==
  IF ~sample THEN [how |-> "mu", gen |-> NoGen]
  ELSE IF distr = "GammaSoftplus" THEN [how |-> "exp(mu)", gen |-> NoGen]
  ELSE [how |-> Law(distr), gen |-> random_state]

SimulateCall(distr, random_state, sample) ==
  /\ run.pc = "idle"
  /\ out' = [NoOut EXCEPT !.op = "simulate", !.arg.distr = distr,
                          !.arg.random_state = random_state, !.arg.sample = sample,
                          !.how = simulate(distr, random_state, sample).how,
                          !.gen = simulate(distr, random_state, sample).gen]
  /\ UNCHANGED <<est, heap, run, calls>>

\* the function specification: direct calls of _prox, of the two softplus
\* implementations and of simulate, on estimators that differ in group
FuncInit == InitWith({[BaseConfig EXCEPT !.group = g] : g \in {NoGroup, IntGroup, MixedGroup}})

FuncNext ==
  \/ \E beta \in Betas, thresh \in Threshes : ProxCall(1, beta, thresh)
  \/ \E z \in Zs : SoftplusCall(z)
  \/ \E z \in Zs : QuCall(z)
  \/ \E distr \in Distributions, rs \in RandomStates, sample \in BOOLEAN :
       SimulateCall(distr, rs, sample)

FuncSpec == FuncInit /\ [][FuncNext]_vars

\* ------------------------------------------------------------------------
\* paths in any order, solver names of any kind
\* ------------------------------------------------------------------------
\* the lambdas a supplied path is made of
LambdaVals == {SCALE \div 2, SCALE}

\* every reg_lambda list of up to MaxLam of them: descending, ascending,
\* with repeated entries
AnyPaths == UNION {[1..n -> LambdaVals] : n \in 1..MaxLam}

\* the two solvers fit knows and a name it does not know
AnySolvers == Solvers \cup {"newton"}

OpenConfigs ==
  {[BaseConfig EXCEPT !.solver = s, !.reg_lambda = [islist |-> TRUE, v |-> p], !.max_iter = m] :
     s \in AnySolvers, p \in AnyPaths, m \in {0, 2}}

\* the open specification: fit calls on an estimator constructed with any
\* of these paths and solver names
OpenInit == InitWith(OpenConfigs)

OpenSpec == OpenInit /\ [][PathNext]_vars

\* ------------------------------------------------------------------------
\* the example of the class documentation
\* ------------------------------------------------------------------------
\* the key of glm = glm[1:3]
DocSlice == SliceKey(IntB(1), IntB(3), 1)

\* the int keys tried on the restricted estimator
DocInts == {IntKey(i) : i \in -(MaxLam + 1)..MaxLam}

\* the documentation specification: a client that fits estimator 1, restricts
\* it with [1:3] (the result is estimator 2), indexes the result with an int
\* key and calls predict on what it got
DocInit == InitWith(ClientConfigs)

DocNext ==
  \/ \E X \in XArgs, y \in ClientYs, d \in ClientDraws : calls.fit < MaxFits /\ FitCall(1, X, y, d)
  \/ FitStep
  \/ calls.getitem = 0 /\ GetItem(1, DocSlice)
  \/ \E key \in DocInts : calls.getitem = 1 /\ GetItem(2, key)
  \/ \E X \in XArgs : calls.query = 0 /\ Predict(2, X)

DocSpec == DocInit /\ [][DocNext]_vars

\* the path specification over the configurations one argument away from the
\* reference, with the scheduling of a synchronous call: a fit call in
\* progress keeps executing
FairPathInit == InitWith({c \in Configs : Deviations(c) <= 1})

FairPathSpec == FairPathInit /\ [][PathNext]_vars /\ WF_vars(FitStep)

\* ------------------------------------------------------------------------
\* properties of fit
\* ------------------------------------------------------------------------
\* a FitResult {'beta0': .., 'beta': ..} as the vector (beta0, beta)
Vec(r) == <<r.beta0>> \o r.beta

\* the states inside the inner loop of one lambda
InnerPcs == {"iter", "grad", "cd", "prox", "aset", "loss", "store"}

\* C1: after a fit call that returned, fit_ is a list with exactly one entry
\* per entry of reg_lambda, entry i is the result the call computed for
\* reg_lambda[i], and nothing of an earlier fit is left in it
C1_OneResultPerLambda ==
  (out.op = "fit" /\ out.err = "") =>
    LET self == est[out.self]
        f    == Deref(heap, self.fit_)
        lam  == heap[self.reg_lambda.v].items
    IN /\ f.kind = "list"
       /\ Len(f.vals) = Len(lam)
       /\ out.path = lam
       /\ Len(out.fit_params) = Len(lam)
       /\ \A i \in 1..Len(lam) : f.vals[i] = Vec(out.fit_params[i])

\* a second fit call has returned on a path of more than one lambda
C1_Witness ==
  /\ out.op = "fit" /\ out.err = ""
  /\ calls.returned = 2
  /\ Len(Deref(heap, est[out.self].fit_).vals) = MaxLam

\* C2: the inner loop of every lambda after the first starts from the entry
\* stored for the previous lambda, the one of the first lambda from the
\* initial draw
C2_WarmStart ==
  (run.pc = "iter" /\ run.t = 0) =>
    /\ run.l = 0 => run.beta = <<run.beta0_hat>> \o run.beta_hat
    /\ run.l > 0 => run.beta = Vec(run.fit_params[run.l])

\* the second lambda starts from a stored entry that differs from the draw
C2_Witness ==
  /\ run.pc = "iter" /\ run.t = 0 /\ run.l > 0
  /\ est[run.self].max_iter > 0
  /\ run.beta # <<run.beta0_hat>> \o run.beta_hat

\* |(J_t - J_{t-1}) / J_t| < tol for the loss at position j of L (iteration
\* j - 1)
MeetsTol(L, j, tol) == L[j] # 0 /\ Abs(L[j] - L[j - 1]) * SCALE < tol * Abs(L[j])

\* C3: whenever the inner loop of a lambda ends, either it was left right
\* after the first iteration t >= 2 whose loss met the tolerance, or it ran
\* all max_iter iterations and no iteration t >= 2 met the tolerance
C3_StopRule ==
  [][run'.l = run.l + 1 =>
       LET L == run.L
           t == run.t
           tol == est[run.self].tol
       IN \/ /\ Len(L) = t + 1
             /\ t >= 2
             /\ MeetsTol(L, t + 1, tol)
             /\ \A j \in 3..t : ~MeetsTol(L, j, tol)
          \/ /\ Len(L) = t
             /\ t = est[run.self].max_iter
             /\ \A j \in 3..t : ~MeetsTol(L, j, tol)]_vars

\* the loop is left at iteration 3: iteration 2 was tested and did not meet
\* the tolerance, and iteration 1 met it without being tested
C3_Witness ==
  /\ run.pc = "store" /\ run.t = 3
  /\ MeetsTol(run.L, 2, est[run.self].tol)

\* C4: a lambda runs at most max_iter inner iterations; when its loop ends
\* the current iterate is stored as its entry and the call goes on to the next
\* lambda, with no error and nothing recorded on the estimator; and every fit
\* call ends
C4_FitTerminates ==
  /\ [](run.pc \in InnerPcs =>
          /\ run.t <= est[run.self].max_iter
          /\ run.pc # "iter" => run.t < est[run.self].max_iter)
  /\ [][run'.l = run.l + 1 =>
          /\ run'.fit_params[run.l + 1] = [beta0 |-> run.beta[1], beta |-> Rest(run.beta)]
          /\ run'.pc = "loop"
          /\ out' = out /\ est' = est /\ heap' = heap]_vars
  /\ (run.pc # "idle") ~> (run.pc = "idle")

\* the loop of the first lambda ran all its iterations, at least three of
\* them, without ever meeting the tolerance, and the call went on
C4_Witness ==
  /\ run.pc = "loop" /\ run.l = 1 /\ Len(RunPath) > 1
  /\ run.t = est[run.self].max_iter /\ run.t >= 3
  /\ Len(run.L) = run.t
  /\ \A j \in 3..run.t : ~MeetsTol(run.L, j, est[run.self].tol)

\* n_features of the design matrices
NFeatures == NCols((CHOOSE X \in XArgs : TRUE).rows)

\* C9: a fit call on an estimator whose group has the wrong length or
\* entries that are not integers raises before any coefficient update
C9_MalformedGroupRejected ==
  [][\A e \in Ests :
       (/\ calls'.fit = calls.fit + 1
        /\ (IF run'.pc = "idle" THEN out'.self ELSE run'.self) = e
        /\ est[e].group.given
        /\ (Len(est[e].group.ids) # NFeatures \/ est[e].group.dtype # "int64"))
       => (run'.pc = "idle" /\ out'.op = "fit" /\ out'.err # "" /\ out'.nupd = 0)]_vars

\* Tau is given and its shape is not (p, p)
TauMalformed(Tau, p) == Tau.given /\ (NRows(Tau.m) # p \/ NCols(Tau.m) # p)

\* C10: with a Tau whose shape is not (n_features, n_features) a fit call
\* executes no gradient step, coordinate update or proximal step, and it ends
\* with an error
C10_MalformedTauRejected ==
  \A e \in Ests :
    (est[e].exists /\ TauMalformed(est[e].Tau, NFeatures)) =>
      /\ (run.pc # "idle" /\ run.self = e) => run.nupd = 0
      /\ (out.op = "fit" /\ out.self = e) => (out.err # "" /\ out.nupd = 0)

\* ------------------------------------------------------------------------
\* properties of slicing, score and predict
\* ------------------------------------------------------------------------
\* what a client reads through estimator variable e's fit_ and reg_lambda
View(e) == [fit |-> Deref(heap, est[e].fit_), lam |-> Deref(heap, est[e].reg_lambda)]

Increasing(idx) == \A i, j \in 1..Len(idx) : i < j => idx[i] < idx[j]

Decreasing(idx) == \A i, j \in 1..Len(idx) : i < j => idx[i] > idx[j]

\* estimator 2 holds entry key.i of estimator 1's fit_ and reg_lambda
IntAgrees(key) ==
  LET i == PyIndex(Len(View(1).fit.vals), key.i)
  IN /\ i # 0
     /\ View(2).fit = [kind |-> "dict", vals |-> <<View(1).fit.vals[i]>>]
     /\ View(2).lam = [kind |-> "num", vals |-> << <<View(1).lam.vals[1][i]>> >>]

\* estimator 2 holds the entries of estimator 1's fit_ and reg_lambda at the
\* positions idx, in the order of idx
SliceAgrees(idx) ==
  /\ View(2).fit.kind = "list" /\ View(2).lam.kind = "nums"
  /\ Len(View(2).fit.vals) = Len(idx) /\ Len(View(2).lam.vals[1]) = Len(idx)
  /\ \A j \in 1..Len(idx) :
       /\ View(2).fit.vals[j] = View(1).fit.vals[idx[j] + 1]
       /\ View(2).lam.vals[1][j] = View(1).lam.vals[1][idx[j] + 1]

\* estimator[key] on estimator 1 has just returned
Sliced == out.op = "getitem" /\ out.self = 1 /\ out.err = ""

\* C5 as stated: after a successful estimator[key] the result holds
\* fit_[key] and reg_lambda[key]; for a slice the retained entries are in
\* their original relative order
C5_SliceKeepsOrder ==
  Sliced =>
    IF out.key.kind = "int"
    THEN IntAgrees(out.key)
    ELSE LET idx == SliceIndices(out.key, Len(View(1).fit.vals))
         IN SliceAgrees(idx) /\ Increasing(idx)

\* C5: after a successful estimator[key] the result holds fit_[key] and
\* reg_lambda[key], of equal length; a slice with a positive step keeps the
\* retained entries in their original relative order, a slice with a negative
\* step holds them in reverse order
C5_SliceResult ==
  Sliced =>
    IF out.key.kind = "int"
    THEN IntAgrees(out.key)
    ELSE LET idx == SliceIndices(out.key, Len(View(1).fit.vals))
         IN /\ SliceAgrees(idx)
            /\ out.key.step > 0 => Increasing(idx)
            /\ out.key.step < 0 => Decreasing(idx)

\* a slice with a negative step has returned two entries
C5_Witness ==
  /\ Sliced /\ out.key.kind = "slice" /\ out.key.step < 0
  /\ Len(View(2).fit.vals) = 2
  /\ View(2).lam.vals[1] # View(1).lam.vals[1]

\* the estimator a step acts on
Actor ==
  IF run.pc # "idle" THEN run.self ELSE IF run'.pc # "idle" THEN run'.self ELSE out'.self

\* C6: estimator[key] leaves what is read through estimator 1 unchanged,
\* and a step of any other operation (a fit, a write through fit_ or
\* reg_lambda) changes nothing that is read through the estimator it does
\* not act on
C6_CopySemantics ==
  [][IF calls'.getitem = calls.getitem + 1
     THEN View(1)' = View(1)
     ELSE \A e \in Ests \ {Actor} : View(e)' = View(e)]_vars

\* the sliced estimator has been written through while the original holds
\* its own results
C6_Witness ==
  /\ out.op = "poke" /\ out.self = 2
  /\ est[1].fit_.tag = "ref" /\ est[2].fit_.tag = "ref"
  /\ Deref(heap, est[2].fit_).vals[1][1] = PokeVal
  /\ \A i \in 1..Len(View(1).fit.vals) : View(1).fit.vals[i][1] # PokeVal

\* the errors that say the model has not been fit
NotFitErrors ==
  {"ValueError: Cannot slice object if the lambdas have not been fit.",
   "ValueError: Model must be fit before prediction can be scored"}

IsNotFitted(err) == err \in NotFitErrors

\* a step of score (ScoreStep) or of estimator[key] (GetItemStep) on an
\* estimator e on which no fit has completed
ScoreStep(e) ==
  /\ calls'.query = calls.query + 1
  /\ out'.op = "score" /\ out'.self = e /\ est[e].fit_.tag = "None"

GetItemStep(e) ==
  /\ calls'.getitem = calls.getitem + 1
  /\ out'.self = e /\ est[e].fit_.tag = "None"

\* C7 as stated: score and estimator[key] on an estimator on which no fit
\* has completed raise a not-fit error and change nothing
C7_NotFitAlways ==
  [][\A e \in Ests :
       (ScoreStep(e) \/ GetItemStep(e)) =>
         (IsNotFitted(out'.err) /\ est' = est /\ heap' = heap)]_vars

\* C7: on an estimator on which no fit has completed estimator[key] raises
\* the not-fit error for every key, score raises the not-fit error when
\* score_metric is one of deviance, pseudo_R2, accuracy and the score_metric
\* ValueError otherwise, and neither changes the estimator
C7_NotFitErrors ==
  [][\A e \in Ests :
       /\ GetItemStep(e) =>
            /\ out'.err = "ValueError: Cannot slice object if the lambdas have not been fit."
            /\ est' = est /\ heap' = heap
       /\ ScoreStep(e) =>
            /\ out'.err = IF est[e].score_metric \in {"deviance", "pseudo_R2", "accuracy"}
                          THEN "ValueError: Model must be fit before prediction can be scored"
                          ELSE "ValueError: score_metric has to be one of deviance or pseudo_R2"
            /\ est' = est /\ heap' = heap]_vars

\* score has raised the not-fit error on an estimator without results
C7_Witness ==
  /\ out.op = "score" /\ est[out.self].fit_.tag = "None"
  /\ out.err = "ValueError: Model must be fit before prediction can be scored"

\* C8: predict(X) with an ndarray X on an estimator on which no fit has
\* completed raises a not-fit error
C8_PredictNotFitted ==
  (/\ out.op = "predict" /\ est[out.self].fit_.tag = "None"
   /\ out.err # "ValueError: Input data should be of type ndarray")
  => IsNotFitted(out.err)

\* ------------------------------------------------------------------------
\* properties of the argument checks of fit
\* ------------------------------------------------------------------------
\* C11: a fit call with an X that is not an ndarray raises the ValueError
\* 'Input data should be of type ndarray' and executes no update, whether
\* group is None or given
C11_NonArrayXRejected ==
  (out.op = "fit" /\ out.arg.xtype # "" /\ out.arg.xtype # "ndarray") =>
    (out.err = "ValueError: Input data should be of type ndarray" /\ out.nupd = 0)

C13_GroupProx ==
  (out.op = "prox" /\ est[out.self].group.given) =>
    LET g == est[out.self].group
        t == out.arg.thresh
        b == out.arg.beta
    IN \A i \in 1..Len(b) :
         g.ids[i] # 0 =>
           LET nrm == Norm2(Select(b, g, g.ids[i]))
           IN IF nrm <= t
              THEN out.val[1][i] = 0
              ELSE out.val[1][i] = b[i] - Quot(t * b[i], nrm)

\* ------------------------------------------------------------------------
\* properties of simulate and softplus
\* ------------------------------------------------------------------------
\* C17: simulate with sample = False returns the mean mu, computed without
\* a generator; with sample = True it returns one draw, with that mean, from
\* the generator built from random_state
C17_Simulate ==
  out.op = "simulate" =>
    IF out.arg.sample
    THEN out.how = Law(out.arg.distr) /\ out.gen = out.arg.random_state
    ELSE out.how = "mu" /\ out.gen = NoGen

\* C18: wherever softplus is evaluated, an element z > 35 gives z, an
\* element z < -10 gives exp(z), any other element gives log1p(exp(z))
C18_SoftplusRegions ==
  out.op \in {"softplus", "_qu"} =>
    out.how = (IF out.arg.z > 35 THEN "z"
               ELSE IF out.arg.z < -10 THEN "exp(z)"
               ELSE "log1p(exp(z))")

\* ------------------------------------------------------------------------
\* properties of the iterations of fit
\* ------------------------------------------------------------------------
\* the threshold of the proximal step of the lambda in progress
RunThresh == Thresh(RunPath[run.l + 1], est[run.self].alpha)

\* C14: with alpha = 0 the proximal step returns every coefficient
\* unchanged, with and without groups, and the active set of cdfast loses an
\* entry only for a coefficient that is exactly zero after the sweep
C14_AlphaZero ==
  [][(run.pc # "idle" /\ run'.pc # "idle" /\ est[run.self].alpha = 0) =>
       /\ run.pc = "prox" => (RunThresh = 0 /\ run'.beta = run.beta)
       /\ run.pc = "aset" =>
            \A i \in 1..Len(run.ActiveSet) :
              (run.ActiveSet[i] = 1 /\ run'.ActiveSet[i] = 0) => run.beta[i] = 0]_vars

\* a proximal step with alpha = 0 on grouped coefficients that are not zero
C14_Witness ==
  /\ run.pc = "aset" /\ est[run.self].alpha = 0 /\ est[run.self].group.given
  /\ \A i \in 2..Len(run.beta) : run.beta[i] # 0

\* C15: the proximal step leaves beta[0] unchanged, the penalty of the
\* objective is computed from beta[1:], and the update of coordinate 0 in a
\* cdfast sweep has no regularisation term in gradient or Hessian
C15_InterceptNotPenalized ==
  [][(run.pc # "idle" /\ run'.pc # "idle") =>
       LET self == est[run.self]
           rl   == RunPath[run.l + 1]
           n    == NRows(run.X)
           b    == Rest(run.beta)
           zz   == LinPred(run.beta[1], b, run.X)
           sq   == SumSeq([i \in 1..n |-> (run.y[i] * SCALE - zz[i]) * (run.y[i] * SCALE - zz[i])])
           gh   == gradhess_logloss_1d([i \in 1..n |-> 1], run.y, run.z)
       IN /\ run.pc = "prox" => run'.beta[1] = run.beta[1]
          /\ run.pc = "loss" =>
               run'.L[Len(run'.L)] = SCALE * SCALE * sq
                                     + n * rl * (SCALE - self.alpha) * L2penalty(b, self.Tau).val
                                     + 2 * n * SCALE * rl * self.alpha * L1penalty(b, self.group)
          /\ (run.pc = "cd" /\ run.k = 0 /\ run.ActiveSet[1] = 1) =>
               run'.beta[1] = run.beta[1] - Quot(gh.gk * SCALE, gh.hk)]_vars

\* after a proximal step the intercept is not zero although it is within
\* the threshold
C15_Witness ==
  /\ run.pc \in {"aset", "loss"}
  /\ RunThresh > 0
  /\ run.beta[1] # 0 /\ Abs(run.beta[1]) <= RunThresh

\* a step inside the inner loop of one lambda of a cdfast fit
InLambda ==
  /\ run.pc \in InnerPcs /\ run'.pc \in InnerPcs
  /\ est[run.self].solver = "cdfast"

\* the active set has n_features + 1 entries and is all-active when the
\* inner loop of a lambda starts
ActiveSetStart ==
  (run.pc \in InnerPcs /\ est[run.self].solver = "cdfast") =>
    /\ Len(run.ActiveSet) = NCols(run.X) + 1
    /\ (run.pc = "iter" /\ run.t = 0) => \A i \in 1..Len(run.ActiveSet) : run.ActiveSet[i] = 1

\* within a lambda only the active-set update changes the active set: it
\* clears the entries, from index first on, whose coefficient is zero, and
\* sets no entry active
ActiveSetStep(first) ==
  InLambda =>
    IF run.pc = "aset"
    THEN \A i \in 1..Len(run.ActiveSet) :
           run'.ActiveSet[i] = (IF run.ActiveSet[i] = 0 \/ (i >= first /\ run.beta[i] = 0)
                                THEN 0 ELSE 1)
    ELSE run'.ActiveSet = run.ActiveSet

\* C16 as stated: every entry, the intercept's included, is cleared exactly
\* when its coefficient is zero after a proximal step
C16_ActiveSetAll == []ActiveSetStart /\ [][ActiveSetStep(1)]_vars

\* C16: the active set has n_features + 1 entries, is all-active at the
\* start of each lambda and only shrinks within a lambda; the entry of a
\* feature coefficient beta[1..p] is cleared exactly when the coefficient is
\* zero after a proximal step, the entry of the intercept is never cleared
C16_ActiveSet == []ActiveSetStart /\ [][ActiveSetStep(2)]_vars

\* an active-set update has left the entry of a zero intercept set and has
\* cleared the entry of a feature
C16_Witness ==
  /\ run.pc = "loss" /\ est[run.self].solver = "cdfast"
  /\ run.beta[1] = 0 /\ run.ActiveSet[1] = 1
  /\ \E i \in 2..Len(run.ActiveSet) : run.ActiveSet[i] = 0

\* C19: whenever a cdfast sweep evaluates the gradient and Hessian of a
\* coordinate, the cached z equals beta[0] + X * beta[1:] for the current beta
C19_CachedPredictor ==
  (run.pc = "cd" /\ run.ActiveSet[run.k + 1] = 1) =>
    run.z = LinPred(run.beta[1], Rest(run.beta), run.X)

\* C20: a cdfast sweep starts at index 0 and visits the indices in
\* increasing order up to n_features; it replaces the coefficient of an index
\* whose entry is set by its Newton update, changes no other coefficient, and
\* never changes the active set
C20_Sweep ==
  [][(run'.pc # "idle") =>
       /\ (run.pc = "iter" /\ run'.pc = "cd") => run'.k = 0
       /\ run.pc = "cd" =>
            LET self == est[run.self]
                r    == cdfast_k(self.alpha, self.Tau, RunPath[run.l + 1], run.X, run.y,
                                 run.z, run.beta, run.k)
            IN /\ run'.k = run.k + 1
               /\ run'.pc = (IF run.k = NCols(run.X) THEN "prox" ELSE "cd")
               /\ run'.ActiveSet = run.ActiveSet
               /\ \A j \in 1..Len(run.beta) :
                    run'.beta[j] = (IF j = run.k + 1 /\ run.ActiveSet[j] = 1
                                    THEN r.beta[j] ELSE run.beta[j])
               /\ run'.nupd = run.nupd + run.ActiveSet[run.k + 1]]_vars

\* a sweep has skipped a coordinate whose entry is cleared and goes on
C20_Witness ==
  /\ run.pc = "cd" /\ run.k >= 1
  /\ run.ActiveSet[run.k] = 0
  /\ run.ActiveSet[run.k + 1] = 1

\* C25: in a cdfast fit, a coefficient whose active-set entry is cleared is
\* exactly zero in every later state of the same lambda, through sweeps and
\* proximal steps, and the entry stored for that lambda has it equal to zero
C25_ClearedStaysZero ==
  /\ []((run.pc \in InnerPcs /\ est[run.self].solver = "cdfast") =>
          \A i \in 1..Len(run.ActiveSet) : run.ActiveSet[i] = 0 => run.beta[i] = 0)
  /\ [][(run.pc \in InnerPcs /\ est[run.self].solver = "cdfast" /\ run'.l = run.l + 1) =>
          \A i \in 2..Len(run.ActiveSet) :
            run.ActiveSet[i] = 0 => run'.fit_params[run.l + 1].beta[i - 1] = 0]_vars

\* in an iteration after the one that cleared an entry, the sweep has passed
\* the cleared coordinate and has updated another feature coefficient, which
\* is not zero
C25_Witness ==
  /\ run.pc \in {"cd", "prox"} /\ run.t >= 1
  /\ \E i, j \in 2..Len(run.ActiveSet) :
       /\ run.ActiveSet[i] = 0 /\ run.k >= i
       /\ run.ActiveSet[j] = 1 /\ run.k >= j /\ run.beta[j] # 0

\* C26: every step of a fit call other than its return leaves fit_ and
\* ynull_ of the estimator as they were: the same objects with the same
\* contents, None if it was never fitted; this includes the steps that raise,
\* at validation and in the iterations
C26_FailureKeepsFittedState ==
  [][~(run.pc = "loop" /\ run'.pc = "idle" /\ out'.op = "fit" /\ out'.err = "") =>
       /\ est'[1].fit_ = est[1].fit_
       /\ est'[1].ynull_ = est[1].ynull_
       /\ Deref(heap', est'[1].fit_) = Deref(heap, est[1].fit_)]_vars

\* a fit call has raised on an estimator that holds the results of an earlier
\* call
C26_Witness ==
  /\ out.op = "fit" /\ out.err # ""
  /\ est[1].fit_.tag = "ref" /\ est[1].ynull_.tag = "num"
  /\ Len(Deref(heap, est[1].fit_).vals) = MaxLam

\* ------------------------------------------------------------------------
\* properties of the documented slicing example
\* ------------------------------------------------------------------------
\* the step glm[i] right after glm = glm[1:3] returned
IndexAfterDocSlice ==
  /\ out.op = "getitem" /\ out.err = "" /\ out.key = DocSlice
  /\ calls'.getitem = calls.getitem + 1
  /\ out'.op = "getitem" /\ out'.self = 2 /\ out'.key.kind = "int"

Descending(s) == \A i, j \in 1..Len(s) : i < j => s[i] >= s[j]

\* the lambdas a fit call has started so far are the first entries of
\* reg_lambda, one per entry, in the order of the list; a call that returned
\* has started every entry
PathInOrder ==
  /\ (run.pc # "idle" /\ est[run.self].reg_lambda.tag = "ref") =>
       LET lam == heap[est[run.self].reg_lambda.v].items
       IN /\ Len(run.path) = (IF run.pc \in InnerPcs THEN run.l + 1 ELSE run.l)
          /\ Len(run.path) <= Len(lam)
          /\ \A i \in 1..Len(run.path) : run.path[i] = lam[i]
  /\ (out.op = "fit" /\ out.err = "") =>
       LET lam == heap[est[out.self].reg_lambda.v].items
       IN /\ Len(out.path) = Len(lam)
          /\ \A i \in 1..Len(lam) : out.path[i] = lam[i]

\* C21 as stated: fit processes each entry of reg_lambda once and in
\* descending order of lambda, whatever sequence was supplied
C21_DescendingOrder ==
  /\ PathInOrder
  /\ Descending(run.path)
  /\ Descending(out.path)

\* C21: fit processes the entries of reg_lambda in the order of the supplied
\* sequence (index 0, 1, ...), each entry exactly once
C21_SuppliedOrder == PathInOrder

\* a fit call has returned on a path supplied in ascending order
C21_Witness ==
  /\ out.op = "fit" /\ out.err = ""
  /\ Len(out.path) = MaxLam
  /\ out.path[1] < out.path[MaxLam]
  /\ out.nupd > 0

\* C22: a fit call that returns on an estimator that holds the results of an
\* earlier fit call with the same X and y (X is the one design matrix; the
\* stored ynull_ is the mean of the earlier y, which identifies it) stores
\* results equal to the earlier ones, whatever was drawn from the global
\* generator
C22_FitDeterministic ==
  [][(run.pc = "loop" /\ run'.pc = "idle" /\ out'.op = "fit" /\ out'.err = ""
      /\ est[run.self].fit_.tag = "ref"
      /\ est[run.self].ynull_ = Num(Mean(run.y))) =>
       Deref(heap', est'[run.self].fit_) = Deref(heap, est[run.self].fit_)]_vars

\* C23: with a solver that is neither 'batch-gradient' nor 'cdfast', no fit
\* call returns and fit_ is never stored
C23_UnsupportedSolverRaises ==
  est[1].solver \notin Solvers =>
    /\ ~(out.op = "fit" /\ out.err = "")
    /\ est[1].fit_ = None

====
